---------------------------- MODULE Spec2Model ----------------------------
(***************************************************************************)
(* Model of the two analysis notebooks of senscience/notebooks:            *)
(*   - Heddema_MomCare_Tanzania/notebook.ipynb (episodes, patients,        *)
(*     cohort assignment, patient-clinic network), and                     *)
(*   - the marine biodiversity notebook (column normalisation, summary     *)
(*     statistics per taxon).                                              *)
(* Timestamps are integers counting ticks (TicksPerDay ticks per calendar  *)
(* day) since 1970-01-01 00:00; NaT, the missing timestamp, is an integer  *)
(* no date of the model equals (pandas stores it as the least int64).      *)
(***************************************************************************)
EXTENDS Integers, Sequences, FiniteSets, TLC

VARIABLES
    cohorts,      \* the global list of (label, start, end) cohort windows
    date,         \* argument of the latest direct call of assign_cohort
    label,        \* value returned by that call
    scanned,      \* number of intervals that call compared the date with
    calls,        \* number of direct calls made so far
    returned,     \* the <<date, label>> pairs of the direct calls made so far
    episode_df,   \* the episodeOfCare table: column name -> column
    patient_df,   \* the patient table: column name -> column
    cohort_map,   \* the merged table, once the cell has built it
    pc,           \* the statement of the MomCare notebook that runs next
    prefix,       \* the prefix of the notebook whose tables are renamed
    raw_columns,  \* the column names of a table as the record source gave them
    columns,      \* the column names of that table now
    renames,      \* number of times the rename cell has run
    dataframes,   \* the tables of the biodiversity notebook, in record_set_ids order
    loop,         \* position in record_set_ids of the summary loop's next turn
    df,           \* position of the table the loop variable df is bound to
    summary_stats,      \* the global summary_stats, rebound by every turn
    summary_stats_dict, \* summary_stats_dict, by position in record_set_ids
    cell,               \* the cell of the biodiversity notebook that runs next
    report,             \* what the missing-value cell printed, by table
    top_10_taxa,        \* top_10_taxa
    clinic_patient_counts,   \* rows [org_name, patient_count]
    top_clinics,             \* the names of the selected clinics
    cohort_map_top_clinics,  \* the rows of cohort_map of the selected clinics
    G,                       \* the graph: [nodes: name -> node_type, edges]
    edge_row,                \* the row the edge loop visits next
    node_size                \* the marker size of every node: node -> <<n, d>>

callVars == <<date, label, scanned, calls, returned>>
cellVars == <<episode_df, patient_df, cohort_map, pc>>
normVars == <<prefix, raw_columns, columns, renames>>
bioVars == <<dataframes, loop, df, summary_stats, summary_stats_dict, cell, report,
            top_10_taxa>>
netVars == <<clinic_patient_counts, top_clinics, cohort_map_top_clinics, G, edge_row,
            node_size>>
vars == <<cohorts, callVars, cellVars, normVars, bioVars, netVars>>

(***************************************************************************)
(* Bounds of the model.                                                    *)
(***************************************************************************)
TicksPerDay == 2   \* resolution of a timestamp: tick 0 of a day is 00:00
MarginDays == 3    \* days enumerated before the first and after the last window
MaxCalls == 3      \* direct calls of assign_cohort after the cell has run
MaxParts == 3      \* pieces a raw column name is put together from
MaxRenames == 2    \* runs of the rename cell
MaxRows == 3       \* rows of the biodiversity table that varies
MaxAssoc == 3      \* rows of cohort_map the network cell starts from

(***************************************************************************)
(* Calendar arithmetic: what pd.to_datetime does with a "YYYY-MM-DD" text. *)
(* A date text is the tuple <<y, m, d>>, optionally <<y, m, d, t>> with a  *)
(* time of day of t ticks.                                                 *)
(***************************************************************************)
\* The missing timestamp errors="coerce" yields; every comparison with it is false.
NaT == -1

IsLeap(y) == (y % 4 = 0 /\ y % 100 # 0) \/ y % 400 = 0

DaysInMonth(y, m) ==
    IF m = 2 THEN (IF IsLeap(y) THEN 29 ELSE 28)
    ELSE IF m \in {4, 6, 9, 11} THEN 30 ELSE 31

\* Days since 1970-01-01 of the civil date y-m-d (proleptic Gregorian).
DaysFromCivil(y, m, d) ==
    LET yy  == IF m <= 2 THEN y - 1 ELSE y
        era == yy \div 400
        yoe == yy - era * 400
        mp  == (m + 9) % 12
        doy == (153 * mp + 2) \div 5 + d - 1
        doe == yoe * 365 + yoe \div 4 - yoe \div 100 + doy
    IN  era * 146097 + doe - 719468

IsValidDateText(s) ==
    /\ Len(s) \in {3, 4}
    /\ s[2] \in 1..12
    /\ s[3] \in 1..DaysInMonth(s[1], s[2])
    /\ Len(s) = 4 => s[4] \in 0..(TicksPerDay - 1)

\* pd.to_datetime(text): the timestamp of a well-formed date text.
ToDatetime(s) ==
    DaysFromCivil(s[1], s[2], s[3]) * TicksPerDay + (IF Len(s) = 4 THEN s[4] ELSE 0)

(***************************************************************************)
(* The cohort windows and assign_cohort.                                   *)
(***************************************************************************)
\* The list with the slip of a window that starts on its predecessor's last day.
CohortWindowsOverlapping ==
    << <<"Cohort 1", <<2020, 11, 1>>, <<2021, 2, 28>> >>,
       <<"Cohort 2", <<2021, 2, 28>>, <<2021, 6, 30>> >>,
       <<"Cohort 3", <<2021, 7, 1>>,  <<2021, 10, 31>> >>,
       <<"Cohort 4", <<2021, 11, 1>>, <<2022, 2, 28>> >>,
       <<"Cohort 5", <<2022, 3, 1>>,  <<2022, 6, 30>> >>,
       <<"Cohort 6", <<2022, 7, 1>>,  <<2022, 10, 31>> >>,
       <<"Cohort 7", <<2022, 11, 1>>, <<2023, 2, 28>> >>,
       <<"Cohort 8", <<2023, 3, 1>>,  <<2023, 6, 30>> >>,
       <<"Cohort 9", <<2023, 7, 1>>,  <<2023, 10, 31>> >> >>

\* The list with the slip of a window that starts a day late.
CohortWindowsGap ==
    << <<"Cohort 1", <<2020, 11, 1>>, <<2021, 2, 28>> >>,
       <<"Cohort 2", <<2021, 3, 2>>,  <<2021, 6, 30>> >>,
       <<"Cohort 3", <<2021, 7, 1>>,  <<2021, 10, 31>> >>,
       <<"Cohort 4", <<2021, 11, 1>>, <<2022, 2, 28>> >>,
       <<"Cohort 5", <<2022, 3, 1>>,  <<2022, 6, 30>> >>,
       <<"Cohort 6", <<2022, 7, 1>>,  <<2022, 10, 31>> >>,
       <<"Cohort 7", <<2022, 11, 1>>, <<2023, 2, 28>> >>,
       <<"Cohort 8", <<2023, 3, 1>>,  <<2023, 6, 30>> >>,
       <<"Cohort 9", <<2023, 7, 1>>,  <<2023, 10, 31>> >> >>

\* cohorts = [...]
CohortWindows ==
    << <<"Cohort 1", <<2020, 11, 1>>, <<2021, 2, 28>> >>,
       <<"Cohort 2", <<2021, 3, 1>>,  <<2021, 6, 30>> >>,
       <<"Cohort 3", <<2021, 7, 1>>,  <<2021, 10, 31>> >>,
       <<"Cohort 4", <<2021, 11, 1>>, <<2022, 2, 28>> >>,
       <<"Cohort 5", <<2022, 3, 1>>,  <<2022, 6, 30>> >>,
       <<"Cohort 6", <<2022, 7, 1>>,  <<2022, 10, 31>> >>,
       <<"Cohort 7", <<2022, 11, 1>>, <<2023, 2, 28>> >>,
       <<"Cohort 8", <<2023, 3, 1>>,  <<2023, 6, 30>> >>,
       <<"Cohort 9", <<2023, 7, 1>>,  <<2023, 10, 31>> >> >>

Unassigned == "Unassigned"
NoLabel == "(not called)"

\* pd.isnull(date)
IsNull(d) == d = NaT

InWindowStrictEnd(d, start, end) ==
    ~IsNull(d) /\ ToDatetime(start) <= d /\ d < ToDatetime(end)

\* The comparison with the end taken as the whole of the last day.
InWindowWholeDay(d, start, end) ==
    ~IsNull(d) /\ ToDatetime(start) <= d /\ d < ToDatetime(end) + TicksPerDay

\* pd.to_datetime(start) <= date <= pd.to_datetime(end)
InWindow(d, start, end) ==
    ~IsNull(d) /\ ToDatetime(start) <= d /\ d <= ToDatetime(end)

\* The for loop of assign_cohort from interval i on: the label returned and
\* the number of intervals compared.
RECURSIVE ScanFrom(_, _, _, _)
ScanFrom(cs, d, i, n) ==
    IF i > Len(cs) THEN [label |-> Unassigned, scanned |-> n]
    ELSE IF InWindow(d, cs[i][2], cs[i][3])
         THEN [label |-> cs[i][1], scanned |-> n + 1]
         ELSE ScanFrom(cs, d, i + 1, n + 1)

\* assign_cohort without its first line.
AssignCohortRunUnguarded(cs, d) == ScanFrom(cs, d, 1, 0)

AssignCohortRun(cs, d) ==
    IF IsNull(d) THEN [label |-> Unassigned, scanned |-> 0]
    ELSE ScanFrom(cs, d, 1, 0)

assign_cohort(cs, d) == AssignCohortRun(cs, d).label

(***************************************************************************)
(* Inputs of the direct calls: every tick from MarginDays before the first *)
(* window to MarginDays after the last one, and the missing timestamp.     *)
(***************************************************************************)
FirstTick == ToDatetime(CohortWindows[1][2]) - MarginDays * TicksPerDay
LastTick == ToDatetime(CohortWindows[Len(CohortWindows)][3]) + (MarginDays + 1) * TicksPerDay - 1
DateInputs == (FirstTick..LastTick) \cup {NaT}

\* Dates a later call is made with: the same date again, its neighbours,
\* the missing timestamp.
FollowUps(d) ==
    IF d = NaT THEN {NaT, FirstTick}
    ELSE {NaT, d} \cup ({d - 1, d + 1} \cap (FirstTick..LastTick))

(***************************************************************************)
(* Tables.  A DataFrame is a function from column names to columns, a      *)
(* column a sequence of cells, one per row.  A raw cell is text, bytes or  *)
(* missing:                                                                *)
(*   [kind |-> "str" | "bytes" | "null", valid |-> whether the bytes       *)
(*    decode as UTF-8, text |-> the characters]                            *)
(* A period_start text is [wrap |-> whether it is spelt b'...', body |->   *)
(* the date text between the quotes]; a body that is no calendar date      *)
(* (such as <<2021, 2, 30>>) stands for any text pd.to_datetime rejects.   *)
(***************************************************************************)
Str(t) == [kind |-> "str", valid |-> TRUE, text |-> t]
Bytes(t) == [kind |-> "bytes", valid |-> TRUE, text |-> t]
BadBytes(t) == [kind |-> "bytes", valid |-> FALSE, text |-> t]
Null == [kind |-> "null", valid |-> TRUE, text |-> ""]
NullDate == [kind |-> "null", valid |-> TRUE, text |-> [wrap |-> FALSE, body |-> <<>>]]

Plain(body) == [wrap |-> FALSE, body |-> body]
Wrapped(body) == [wrap |-> TRUE, body |-> body]

NRows(tbl) == IF DOMAIN tbl = {} THEN 0 ELSE Len(tbl[CHOOSE c \in DOMAIN tbl : TRUE])

\* df[c] = col
SetCol(tbl, c, col) == [k \in (DOMAIN tbl) \cup {c} |-> IF k = c THEN col ELSE tbl[k]]

\* pd.DataFrame(list of records): the columns of a sequence of rows.
FromRows(rows, cols) == [c \in cols |-> [i \in 1..Len(rows) |-> rows[i][c]]]

\* The sequences over S of 1..n elements.
SeqsUpTo(S, n) == UNION {[1..k -> S] : k \in 1..n}

\* lambda x: x.decode() if isinstance(x, bytes) else x
DecodeRaises(x) == x.kind = "bytes" /\ ~x.valid

DecodeStrict(x) == IF x.kind = "bytes" THEN [x EXCEPT !.kind = "str"] ELSE x

\* decode_if_bytes: val.decode(errors="ignore") drops the undecodable bytes.
decode_if_bytes(val) ==
    IF val.kind = "bytes" THEN [val EXCEPT !.kind = "str", !.valid = TRUE] ELSE val

\* .str.extract(r"(?:b')?(.*?)'?\Z"): the text between b' and ', missing for
\* a cell that is no text.
StrExtract(x) ==
    IF x.kind = "str" THEN [x EXCEPT !.text = Plain(x.text.body)] ELSE NullDate

\* pd.to_datetime(..., errors="coerce") of one cell.
ToDatetimeCoerce(x) ==
    IF x.kind = "str" /\ ~x.text.wrap /\ IsValidDateText(x.text.body)
    THEN ToDatetime(x.text.body)
    ELSE NaT

\* A cast that leaves a missing value missing.
AsTypeStrKeepNull(x) == IF x.kind = "null" THEN x ELSE [x EXCEPT !.kind = "str"]

\* .astype(str) of one cell: a missing value becomes the text "nan".
AsTypeStr(x) == IF x.kind = "null" THEN Str("nan") ELSE [x EXCEPT !.kind = "str"]

\* The rows of the right table whose key equals k, in order.
RECURSIVE Matches(_, _, _)
Matches(right, k, j) ==
    IF j > NRows(right) THEN <<>>
    ELSE (IF right["patient_id"][j] = k THEN <<j>> ELSE <<>>) \o Matches(right, k, j + 1)

\* left.merge(right, on="patient_id", how="left") as a sequence of rows
\* <<left row, right row or 0>> in the order of the left rows.
RECURSIVE MergeRows(_, _, _)
MergeRows(left, right, i) ==
    IF i > NRows(left) THEN <<>>
    ELSE LET ms == Matches(right, left["patient_id"][i], 1)
         IN  (IF ms = <<>> THEN << <<i, 0>> >>
              ELSE [n \in 1..Len(ms) |-> <<i, ms[n]>>])
             \o MergeRows(left, right, i + 1)

Merge(left, right) ==
    LET rows == MergeRows(left, right, 1)
        L(c) == [n \in 1..Len(rows) |-> left[c][rows[n][1]]]
        R(c) == [n \in 1..Len(rows) |->
                    IF rows[n][2] = 0 THEN Null ELSE right[c][rows[n][2]]]
    IN  [patient_id |-> L("patient_id"), cohort |-> L("cohort"),
         start_date |-> L("start_date"),
         birthDate |-> R("birthDate"), org_name |-> R("org_name")]

(***************************************************************************)
(* The records the record source yields for the two record sets.           *)
(***************************************************************************)
MaxEpisodes == 2   \* rows of the episodeOfCare table
MaxPatients == 2   \* rows of the patient table

EpisodeRowInputs ==
    { [patient_reference |-> Str("p1"),   period_start |-> Str(Plain(<<2021, 1, 15>>))],
      [patient_reference |-> Bytes("p1"), period_start |-> Bytes(Plain(<<2021, 2, 28, 1>>))],
      [patient_reference |-> Str("p2"),   period_start |-> Str(Wrapped(<<2021, 3, 1>>))],
      [patient_reference |-> Str("p2"),   period_start |-> Str(Plain(<<2019, 1, 1>>))],
      [patient_reference |-> Str("p1"),   period_start |-> Str(Plain(<<2021, 2, 30>>))],
      [patient_reference |-> Null,        period_start |-> NullDate],
      [patient_reference |-> Str("p2"),   period_start |-> BadBytes(Plain(<<2021, 1, 15>>))],
      [patient_reference |-> BadBytes("p1"), period_start |-> Str(Plain(<<2023, 10, 31>>))] }

PatientRowInputs ==
    { [identifier_value |-> Str("p1"),   birthDate |-> Str("1995-04-02"),
       contact_organization_display |-> Str("A")],
      [identifier_value |-> Bytes("p2"), birthDate |-> Bytes("1990-01-01"),
       contact_organization_display |-> BadBytes("B")],
      [identifier_value |-> Null,        birthDate |-> BadBytes("1988"),
       contact_organization_display |-> Null],
      [identifier_value |-> Null,        birthDate |-> Str("1988-07-09"),
       contact_organization_display |-> Str("B")],
      [identifier_value |-> BadBytes("p1"), birthDate |-> Str("1995-04-02"),
       contact_organization_display |-> Str("A")] }

(***************************************************************************)
(* Column Normalizer.  A name is a sequence of characters.                 *)
(***************************************************************************)
\* prefix = "https://sen.science/core/"
PrefixCore ==
    <<"h", "t", "t", "p", "s", ":", "/", "/", "s", "e", "n", ".", "s", "c", "i",
      "e", "n", "c", "e", "/", "c", "o", "r", "e", "/">>

\* prefix = "https://sen.science/doi/10.71728/r1rj-f947/"
PrefixDoi ==
    <<"h", "t", "t", "p", "s", ":", "/", "/", "s", "e", "n", ".", "s", "c", "i",
      "e", "n", "c", "e", "/", "d", "o", "i", "/", "1", "0", ".", "7", "1", "7",
      "2", "8", "/", "r", "1", "r", "j", "-", "f", "9", "4", "7", "/">>

\* str.find: the least offset at which old occurs in x, -1 when it does not.
Find(x, old) ==
    LET at == {k \in 0..(Len(x) - Len(old)) : SubSeq(x, k + 1, k + Len(old)) = old}
    IN  IF at = {} THEN -1 ELSE CHOOSE k \in at : \A j \in at : k <= j

StartsWith(x, old) == Len(old) <= Len(x) /\ SubSeq(x, 1, Len(old)) = old

\* x.replace(old, ""): the occurrences of old, found one after the other
\* from the left, removed.
RECURSIVE StrReplace(_, _)
StrReplace(x, old) ==
    LET k == Find(x, old)
    IN  IF k < 0 THEN x
        ELSE SubSeq(x, 1, k) \o StrReplace(SubSeq(x, k + Len(old) + 1, Len(x)), old)

\* x.split(sep): the segments between the occurrences of sep.
RECURSIVE Split(_, _)
Split(x, sep) ==
    LET k == Find(x, sep)
    IN  IF k < 0 THEN <<x>>
        ELSE <<SubSeq(x, 1, k)>> \o Split(SubSeq(x, k + Len(sep) + 1, Len(x)), sep)

\* x.split("/", 1)[-1]: what follows the first "/".
NormalizeSplitOnce(p, x) ==
    LET y == StrReplace(x, p)
        parts == Split(y, <<"/">>)
    IN  IF Len(parts) = 1 THEN y ELSE SubSeq(y, Len(parts[1]) + 2, Len(y))

\* x.replace(prefix, "").split("/")[0]
NormalizeFirstSegment(p, x) == Split(StrReplace(x, p), <<"/">>)[1]

\* lambda x: x.replace(prefix, "").split("/")[-1]
Normalize(p, x) ==
    LET parts == Split(StrReplace(x, p), <<"/">>) IN parts[Len(parts)]

\* Raw column names: up to MaxParts pieces, each the prefix, a part of it,
\* a "/" or a field name.
Pieces(p) ==
    { p, SubSeq(p, 1, 8), SubSeq(p, 9, Len(p)), <<"/">>, <<"i", "d">>,
      <<"a", "/", "b">> }

RECURSIVE Concat(_)
Concat(ps) == IF ps = <<>> THEN <<>> ELSE Head(ps) \o Concat(Tail(ps))

NameInputs(p) == {Concat(ps) : ps \in SeqsUpTo(Pieces(p), MaxParts)}

(***************************************************************************)
(* Aggregator: the summary statistics of one biodiversity table.  A number *)
(* cell is <<v>> or, missing, <<>>; a statistic is the fraction <<n, d>>,   *)
(* NaN the fraction <<0, 0>>; Std holds the sample variance, the square of *)
(* the standard deviation.                                                 *)
(***************************************************************************)
\* The record sets with FISH moved to the front.
RecordSetIdsFishFirst == <<"FISH", "PHYTOPLANKTON", "INVERTEBRATES", "MACROALGAE">>

record_set_ids == <<"PHYTOPLANKTON", "INVERTEBRATES", "MACROALGAE", "FISH">>

\* The taxon names of the model, in the order groupby sorts its keys.
TaxaNames == <<"A", "B", "T1", "T2", "T3", "T4", "T5", "T6", "T7", "T8", "T9">>

\* A cell of a numeric column: a number, the missing value, or (after a
\* replace) a text.
NumNull == <<>>
Num(v) == <<v>>
Txt(s) == <<s, "str">>
NaN == <<0, 0>>

\* The rows of group g: df.groupby('taxaname') puts a row in the group of
\* its taxaname and leaves out the rows whose taxaname is missing.
GroupRows(t, g) ==
    {i \in 1..NRows(t) : t["taxaname"][i].kind = "str" /\ t["taxaname"][i].text = g}

\* groupby(..., dropna=False): the rows without a taxaname form a group too.
GroupKeysKeepNull(t) ==
    SelectSeq(TaxaNames \o <<"">>, LAMBDA g :
        \E i \in 1..NRows(t) : t["taxaname"][i].text = g)

\* The group keys, sorted.
GroupKeys(t) == SelectSeq(TaxaNames, LAMBDA g : GroupRows(t, g) # {})

\* The rows of group g whose parameter_value is not missing.
Valued(t, g) == {i \in GroupRows(t, g) : t["parameter_value"][i] # NumNull}

RECURSIVE SumOver(_, _, _)
SumOver(t, I, sq) ==
    IF I = {} THEN 0
    ELSE LET i == CHOOSE j \in I : TRUE
             v == t["parameter_value"][i][1]
         IN  (IF sq THEN v * v ELSE v) + SumOver(t, I \ {i}, sq)

\* 'size': the number of rows of the group.
GroupSize(t, g) ==
    Cardinality({i \in 1..NRows(t) : t["taxaname"][i].text = g})

\* 'count': the number of non-missing values of the group.
GroupCount(t, g) ==
    Cardinality({i \in 1..NRows(t) :
        t["taxaname"][i].text = g /\ t["parameter_value"][i] # NumNull})

\* .agg({'parameter_value': ['mean', 'std', 'min', 'max', 'count']}) of group g
AggregateRow(t, g) ==
    LET I == Valued(t, g)
        n == Cardinality(I)
        V == {t["parameter_value"][i][1] : i \in I}
        sum == SumOver(t, I, FALSE)
    IN  [Taxa |-> g,
         Mean |-> IF n = 0 THEN NaN ELSE <<sum, n>>,
         Std |-> IF n < 2 THEN NaN
                 ELSE <<n * SumOver(t, I, TRUE) - sum * sum, n * (n - 1)>>,
         Min |-> IF n = 0 THEN NaN ELSE <<CHOOSE v \in V : \A w \in V : v <= w, 1>>,
         Max |-> IF n = 0 THEN NaN ELSE <<CHOOSE v \in V : \A w \in V : v >= w, 1>>,
         Count |-> GroupCount(t, g)]

\* df.groupby('taxaname').agg(...).reset_index(), columns renamed.
Aggregate(t) ==
    LET keys == GroupKeys(t) IN [k \in 1..Len(keys) |-> AggregateRow(t, keys[k])]

\* sort_values(by='Count', ascending=True)
RECURSIVE SortedOrdersAscending(_, _)
SortedOrdersAscending(cnt, S) ==
    IF S = {} THEN {<<>>}
    ELSE UNION { {<<i>> \o o : o \in SortedOrdersAscending(cnt, S \ {i})} :
                 i \in {j \in S : \A k \in S : cnt[k] >= cnt[j]} }

\* sort_values(ascending=False): the default kind, quicksort, is not stable,
\* so rows of equal count come out in any order.  The orders of the row
\* positions S that are descending by the counts cnt.
RECURSIVE SortedOrders(_, _)
SortedOrders(cnt, S) ==
    IF S = {} THEN {<<>>}
    ELSE UNION { {<<i>> \o o : o \in SortedOrders(cnt, S \ {i})} :
                 i \in {j \in S : \A k \in S : cnt[k] <= cnt[j]} }

(***************************************************************************)
(* Network Builder.                                                        *)
(***************************************************************************)
\* head(10)
TopK == 10

\* The non-missing texts of a column in the order they first occur
\* (Series.unique, and the order value_counts counts in).
RECURSIVE FirstSeen(_, _)
FirstSeen(col, seen) ==
    IF col = <<>> THEN <<>>
    ELSE IF Head(col).kind # "str" \/ Head(col).text \in seen
         THEN FirstSeen(Tail(col), seen)
         ELSE <<Head(col).text>> \o FirstSeen(Tail(col), seen \cup {Head(col).text})

Unique(col) == FirstSeen(col, {})

\* The number of cells of the column that hold the text v.
Occurrences(col, v) == Cardinality({i \in 1..Len(col) : col[i] = Str(v)})

\* The number of distinct patient_id among the rows of clinic v (the count
\* the claims about the Network Builder speak of; the code does not compute it).
DistinctPatients(t, v) ==
    Cardinality({t["patient_id"][i].text :
                   i \in {j \in 1..NRows(t) : t["org_name"][j] = Str(v)}})

\* cohort_map['org_name'].value_counts().reset_index(), before its sort: a
\* row per clinic name with the number of rows of cohort_map that hold it.
ClinicCounts(t) ==
    LET names == Unique(t["org_name"])
    IN  [n \in 1..Len(names) |->
            [org_name |-> names[n], patient_count |-> Occurrences(t["org_name"], names[n])]]

\* df.head(n) of a sequence of rows.
HeadRows(rows, n) == SubSeq(rows, 1, IF Len(rows) < n THEN Len(rows) ELSE n)

\* df[mask]: the rows of column store t at the positions keep, in order.
RECURSIVE KeepRows(_, _, _)
KeepRows(col, keep, i) ==
    IF i > Len(col) THEN <<>>
    ELSE (IF i \in keep THEN <<col[i]>> ELSE <<>>) \o KeepRows(col, keep, i + 1)

\* The table with no row taken out.
FilterKeepAll(t, keep) == t

Filter(t, keep) == [c \in DOMAIN t |-> KeepRows(t[c], keep, 1)]

\* nx.Graph()
EmptyGraph == [nodes |-> <<>>, edges |-> {}]

\* G.add_nodes_from(names, node_type=type): new nodes are added, the
\* node_type of the ones already there is overwritten.
AddNodesFrom(g, names, type) ==
    [g EXCEPT !.nodes = [n \in (DOMAIN g.nodes) \cup names |->
                            IF n \in names THEN type ELSE g.nodes[n]]]

\* G.add_edge(u, v): the edge, and the end points that are no nodes yet
\* (without a node_type).
AddEdge(g, u, v) ==
    [nodes |-> [n \in (DOMAIN g.nodes) \cup {u, v} |->
                   IF n \in DOMAIN g.nodes THEN g.nodes[n] ELSE "none"],
     edges |-> g.edges \cup {{u, v}}]

Range(seq) == {seq[i] : i \in 1..Len(seq)}

(***************************************************************************)
(* The parts of the state a specification does not look at.               *)
(***************************************************************************)
\* A table that has not been built.
NoTable == <<>>

IdleCall ==
    /\ date = NaT
    /\ label = NoLabel
    /\ scanned = 0
    /\ calls = 0
    /\ returned = {}

IdleCell ==
    /\ episode_df = NoTable
    /\ patient_df = NoTable
    /\ cohort_map = NoTable
    /\ pc = "done"

IdleCohort ==
    /\ cohorts = CohortWindows
    /\ IdleCall
    /\ IdleCell

IdleNorm ==
    /\ prefix = PrefixCore
    /\ raw_columns = <<>>
    /\ columns = <<>>
    /\ renames = 0

IdleNet ==
    /\ clinic_patient_counts = <<>>
    /\ top_clinics = <<>>
    /\ cohort_map_top_clinics = NoTable
    /\ G = EmptyGraph
    /\ edge_row = 1
    /\ node_size = <<>>

IdleBio ==
    /\ dataframes = <<>>
    /\ loop = 1
    /\ df = 0
    /\ summary_stats = <<>>
    /\ summary_stats_dict = <<>>
    /\ cell = "end"
    /\ report = <<>>
    /\ top_10_taxa = <<>>

(***************************************************************************)
(* assign_cohort called directly, with every date of the enumerated range. *)
(***************************************************************************)
InitAssign ==
    /\ cohorts = CohortWindows
    /\ date \in DateInputs
    /\ label = NoLabel
    /\ scanned = 0
    /\ calls = 0
    /\ returned = {}
    /\ IdleCell
    /\ IdleNorm
    /\ IdleBio
    /\ IdleNet

\* assign_cohort written to consume the window it matches (cohorts.pop(i)).
CallAssignCohortConsuming(d) ==
    /\ calls < MaxCalls
    /\ LET r == AssignCohortRun(cohorts, d)
       IN  /\ label' = r.label
           /\ scanned' = r.scanned
           /\ returned' = returned \cup {<<d, r.label>>}
           /\ cohorts' = IF r.label = Unassigned THEN cohorts
                         ELSE SubSeq(cohorts, 1, r.scanned - 1)
                              \o SubSeq(cohorts, r.scanned + 1, Len(cohorts))
    /\ date' = d
    /\ calls' = calls + 1
    /\ UNCHANGED <<cellVars, normVars, bioVars, netVars>>

\* A direct call assign_cohort(d): it reads the global list and returns.
CallAssignCohort(d) ==
    /\ calls < MaxCalls
    /\ LET r == AssignCohortRun(cohorts, d)
       IN  /\ label' = r.label
           /\ scanned' = r.scanned
           /\ returned' = returned \cup {<<d, r.label>>}
    /\ date' = d
    /\ calls' = calls + 1
    /\ UNCHANGED <<cohorts, cellVars, normVars, bioVars, netVars>>

NextAssign ==
    \/ /\ calls = 0
       /\ CallAssignCohort(date)
    \/ /\ calls > 0
       /\ \E d \in FollowUps(date) : CallAssignCohort(d)

SpecAssign == InitAssign /\ [][NextAssign]_vars

(***************************************************************************)
(* The cohort cell of the MomCare notebook, statement by statement.       *)
(***************************************************************************)
InitCell ==
    /\ cohorts = CohortWindows
    /\ IdleCall
    /\ \E rows \in SeqsUpTo(EpisodeRowInputs, MaxEpisodes) :
          episode_df = FromRows(rows, {"patient_reference", "period_start"})
    /\ \E rows \in SeqsUpTo(PatientRowInputs, MaxPatients) :
          patient_df = FromRows(rows, {"identifier_value", "birthDate",
                                       "contact_organization_display"})
    /\ cohort_map = NoTable
    /\ pc = "L235"
    /\ IdleNorm
    /\ IdleBio
    /\ IdleNet

AnyRaises(col) == \E i \in 1..Len(col) : DecodeRaises(col[i])

\* A statement df[target] = df[source].apply(lambda x: x.decode() if
\* isinstance(x, bytes) else x): an undecodable cell raises UnicodeDecodeError
\* and ends the cell before the column is assigned.
DecodeColumn(tbl, source, target) ==
    SetCol(tbl, target, [i \in 1..Len(tbl[source]) |-> DecodeStrict(tbl[source][i])])

\* episode_df["patient_id"] = episode_df["patient_reference"].apply(...)
DecodePatientReference ==
    /\ pc = "L235"
    /\ IF AnyRaises(episode_df["patient_reference"])
       THEN pc' = "raised L235" /\ UNCHANGED episode_df
       ELSE /\ episode_df' = DecodeColumn(episode_df, "patient_reference", "patient_id")
            /\ pc' = "L237"
    /\ UNCHANGED <<cohorts, callVars, patient_df, cohort_map, normVars, bioVars, netVars>>

\* episode_df["period_start"] = episode_df["period_start"].apply(...)
DecodePeriodStart ==
    /\ pc = "L237"
    /\ IF AnyRaises(episode_df["period_start"])
       THEN pc' = "raised L237" /\ UNCHANGED episode_df
       ELSE /\ episode_df' = DecodeColumn(episode_df, "period_start", "period_start")
            /\ pc' = "L238"
    /\ UNCHANGED <<cohorts, callVars, patient_df, cohort_map, normVars, bioVars, netVars>>

\* episode_df["start_date"] = pd.to_datetime(....str.extract(...), errors="coerce")
ParseStartDate ==
    /\ pc = "L238"
    /\ episode_df' = SetCol(episode_df, "start_date",
          [i \in 1..NRows(episode_df) |->
              ToDatetimeCoerce(StrExtract(episode_df["period_start"][i]))])
    /\ pc' = "L242"
    /\ UNCHANGED <<cohorts, callVars, patient_df, cohort_map, normVars, bioVars, netVars>>

\* patient_df["patient_id"] = patient_df["identifier_value"].apply(...)
DecodeIdentifier ==
    /\ pc = "L242"
    /\ IF AnyRaises(patient_df["identifier_value"])
       THEN pc' = "raised L242" /\ UNCHANGED patient_df
       ELSE /\ patient_df' = DecodeColumn(patient_df, "identifier_value", "patient_id")
            /\ pc' = "L249"
    /\ UNCHANGED <<cohorts, callVars, episode_df, cohort_map, normVars, bioVars, netVars>>

\* patient_df["birthDate"] = patient_df["birthDate"].apply(decode_if_bytes)
DecodeBirthDate ==
    /\ pc = "L249"
    /\ patient_df' = SetCol(patient_df, "birthDate",
          [i \in 1..NRows(patient_df) |-> decode_if_bytes(patient_df["birthDate"][i])])
    /\ pc' = "L250"
    /\ UNCHANGED <<cohorts, callVars, episode_df, cohort_map, normVars, bioVars, netVars>>

\* patient_df["org_name"] = patient_df["contact_organization_display"].apply(decode_if_bytes)
DecodeOrgName ==
    /\ pc = "L250"
    /\ patient_df' = SetCol(patient_df, "org_name",
          [i \in 1..NRows(patient_df) |->
              decode_if_bytes(patient_df["contact_organization_display"][i])])
    /\ pc' = "L253"
    /\ UNCHANGED <<cohorts, callVars, episode_df, cohort_map, normVars, bioVars, netVars>>

\* episode_df["patient_id"] = episode_df["patient_id"].astype(str)
\* patient_df["patient_id"] = patient_df["patient_id"].astype(str)
KeysToStr ==
    /\ pc = "L253"
    /\ episode_df' = SetCol(episode_df, "patient_id",
          [i \in 1..NRows(episode_df) |-> AsTypeStr(episode_df["patient_id"][i])])
    /\ patient_df' = SetCol(patient_df, "patient_id",
          [i \in 1..NRows(patient_df) |-> AsTypeStr(patient_df["patient_id"][i])])
    /\ pc' = "L276"
    /\ UNCHANGED <<cohorts, callVars, cohort_map, normVars, bioVars, netVars>>

\* episode_df["cohort"] = episode_df["start_date"].apply(assign_cohort)
ApplyAssignCohort ==
    /\ pc = "L276"
    /\ episode_df' = SetCol(episode_df, "cohort",
          [i \in 1..NRows(episode_df) |->
              assign_cohort(cohorts, episode_df["start_date"][i])])
    /\ pc' = "L279"
    /\ UNCHANGED <<cohorts, callVars, patient_df, cohort_map, normVars, bioVars, netVars>>

\* cohort_map = episode_df[[...]].merge(patient_df[[...]], on="patient_id", how="left")
MergeCohortMap ==
    /\ pc = "L279"
    /\ cohort_map' = Merge(episode_df, patient_df)
    /\ pc' = "done"
    /\ UNCHANGED <<cohorts, callVars, episode_df, patient_df, normVars, bioVars, netVars>>

\* Dates of the direct calls made once the cell has run: the start dates of
\* the table, the missing timestamp, the date of the call before.
ProbeDates ==
    {NaT, date} \cup {episode_df["start_date"][i] : i \in 1..NRows(episode_df)}

NextCell ==
    \/ DecodePatientReference
    \/ DecodePeriodStart
    \/ ParseStartDate
    \/ DecodeIdentifier
    \/ DecodeBirthDate
    \/ DecodeOrgName
    \/ KeysToStr
    \/ ApplyAssignCohort
    \/ MergeCohortMap
    \/ /\ pc = "done"
       /\ \E d \in ProbeDates : CallAssignCohort(d)

SpecCell == InitCell /\ [][NextCell]_vars

(***************************************************************************)
(* The rename cell of both notebooks.                                     *)
(***************************************************************************)
InitNorm ==
    /\ IdleCohort
    /\ IdleBio
    /\ IdleNet
    /\ prefix \in {PrefixCore, PrefixDoi}
    /\ \E x \in NameInputs(prefix) :
          raw_columns \in {<<x>>, <<x, <<"i", "d">>>>, <<prefix \o <<"i", "d">>, x>>}
    /\ columns = raw_columns
    /\ renames = 0

\* for name, df in dataframes.items(): df.rename(columns=lambda x: ..., inplace=True)
RenameColumns ==
    /\ renames < MaxRenames
    /\ columns' = [i \in 1..Len(columns) |-> Normalize(prefix, columns[i])]
    /\ renames' = renames + 1
    /\ UNCHANGED <<prefix, raw_columns, cohorts, callVars, cellVars, bioVars, netVars>>

NextNorm == RenameColumns

SpecNorm == InitNorm /\ [][NextNorm]_vars

(***************************************************************************)
(* The summary-statistics cell of the biodiversity notebook.               *)
(***************************************************************************)
\* The day every row of the model was collected at.
DateCollected == Str(<<2020, 1, 1>>)

BioRow(tx, v) == [taxaname |-> tx, parameter_value |-> v, datecollected |-> DateCollected]

BioRowInputs ==
    { BioRow(tx, v) : tx \in {Str("A"), Str("B"), Null}, v \in {NumNull, Num(1), Num(3)} }

BioColumns == {"taxaname", "parameter_value", "datecollected"}

\* df.columns: the columns of a table, in their order.
BioColumnOrder == <<"taxaname", "parameter_value", "datecollected", "year_collected">>

ColumnsOf(t) == SelectSeq(BioColumnOrder, LAMBDA c : c \in DOMAIN t)

BaseTable == FromRows(<<BioRow(Str("A"), Num(1))>>, BioColumns)

\* Rows of nine more taxa, the c-th with the c values 0 .. c - 1: with them
\* and both A and B a table has more taxa than head(10) keeps.
FillerTaxa == <<"T1", "T2", "T3", "T4", "T5", "T6", "T7", "T8", "T9">>

RECURSIVE FillerTaxaRowsFrom(_, _)
FillerTaxaRowsFrom(c, j) ==
    IF c > Len(FillerTaxa) THEN <<>>
    ELSE IF j > c THEN FillerTaxaRowsFrom(c + 1, 1)
    ELSE <<BioRow(Str(FillerTaxa[c]), Num(j - 1))>> \o FillerTaxaRowsFrom(c, j + 1)

FillerTaxaRows == FillerTaxaRowsFrom(1, 1)

\* head(10) of the summary
TopTaxa == 10

\* df.isnull() of one cell of column c.
IsMissingCell(c, x) ==
    IF c \in {"parameter_value", "year_collected"} THEN x = NumNull ELSE x.kind = "null"

\* df.columns[df.isnull().all()].tolist()
MissingColumnsAll(t) ==
    SelectSeq(ColumnsOf(t), LAMBDA c : \A i \in 1..NRows(t) : IsMissingCell(c, t[c][i]))

\* df.columns[df.isnull().any()].tolist()
MissingColumns(t) ==
    SelectSeq(ColumnsOf(t), LAMBDA c : \E i \in 1..NRows(t) : IsMissingCell(c, t[c][i]))

\* .replace({0: 'Absent', 1: 'Present'}) of one cell
ReplaceBinary(x) ==
    IF x = Num(0) THEN Txt("Absent") ELSE IF x = Num(1) THEN Txt("Present") ELSE x

\* pd.to_datetime(..., format='%Y-%m-%d').dt.year of one cell
YearOf(x) == IF x.kind = "null" THEN NumNull ELSE Num(x.text[1])

InitBio ==
    /\ IdleCohort
    /\ IdleNorm
    /\ IdleNet
    /\ \E k \in 1..Len(record_set_ids), rows \in SeqsUpTo(BioRowInputs, MaxRows) :
          \E more \in (IF k = Len(record_set_ids) THEN {<<>>, FillerTaxaRows} ELSE {<<>>}) :
              dataframes = [i \in 1..Len(record_set_ids) |->
                               IF i = k THEN FromRows(rows \o more, BioColumns)
                               ELSE BaseTable]
    /\ loop = 1
    /\ df = 0
    /\ summary_stats = <<>>
    /\ summary_stats_dict = <<>>
    /\ cell = "L317"
    /\ report = <<>>
    /\ top_10_taxa = <<>>

\* for name, df in dataframes.items():
\*     missing_columns = df.columns[df.isnull().any()].tolist()
\*     if missing_columns: print(... has missing values in columns: [...])
\*     else: print(... has no missing values.)
\* A printed line is its text and, per column it lists, what it says of the
\* column: the column's name.
CheckMissing ==
    /\ cell = "L317"
    /\ report' = [k \in 1..Len(dataframes) |->
                     LET missing_columns == MissingColumns(dataframes[k])
                     IN  [text |-> IF missing_columns # <<>>
                                   THEN "has missing values in columns"
                                   ELSE "has no missing values",
                          columns |-> [n \in 1..Len(missing_columns) |->
                                          <<missing_columns[n]>>]]]
    /\ df' = Len(dataframes)
    /\ cell' = "L347"
    /\ UNCHANGED <<dataframes, loop, summary_stats, summary_stats_dict, top_10_taxa>>
    /\ UNCHANGED <<cohorts, callVars, cellVars, normVars, netVars>>

\* One turn of: for name, df in dataframes.items():
\*     summary_stats = df.groupby('taxaname').agg({...}).reset_index()
\*     summary_stats = summary_stats.sort_values(by='Count', ascending=False)
\*     summary_stats_dict[name] = summary_stats
SummariseNext ==
    /\ cell = "L347"
    /\ loop <= Len(record_set_ids)
    /\ \E rows \in {Aggregate(dataframes[loop])} :
          \E o \in SortedOrders([i \in 1..Len(rows) |-> rows[i].Count], 1..Len(rows)) :
              /\ summary_stats' = [i \in 1..Len(rows) |-> rows[o[i]]]
              /\ summary_stats_dict' = Append(summary_stats_dict, summary_stats')
    /\ df' = loop
    /\ loop' = loop + 1
    /\ cell' = IF loop = Len(record_set_ids) THEN "L415" ELSE "L347"
    /\ UNCHANGED <<dataframes, report, top_10_taxa>>
    /\ UNCHANGED <<cohorts, callVars, cellVars, normVars, netVars>>

\* top_10_taxa = summary_stats.head(10)
SelectTopTaxa ==
    /\ cell = "L415"
    /\ top_10_taxa' = HeadRows(summary_stats, TopTaxa)
    /\ cell' = "L426"
    /\ UNCHANGED <<dataframes, loop, df, summary_stats, summary_stats_dict, report>>
    /\ UNCHANGED <<cohorts, callVars, cellVars, normVars, netVars>>

\* df['parameter_value'] = df['parameter_value'].replace({0: 'Absent', 1: 'Present'})
\* and the two plots of top_10_taxa.  df is the table the last loop left it
\* bound to, an entry of dataframes.
PlotTopTaxa ==
    /\ cell = "L426"
    /\ LET t == dataframes[df]
       IN  dataframes' =
              [dataframes EXCEPT ![df] =
                  SetCol(t, "parameter_value",
                         [i \in 1..NRows(t) |-> ReplaceBinary(t["parameter_value"][i])])]
    /\ cell' = "L482"
    /\ UNCHANGED <<loop, df, summary_stats, summary_stats_dict, report, top_10_taxa>>
    /\ UNCHANGED <<cohorts, callVars, cellVars, normVars, netVars>>

\* for name, df in dataframes.items():
\*     df["year_collected"] = pd.to_datetime(df["datecollected"], format='%Y-%m-%d').dt.year
AddYearCollected ==
    /\ cell = "L482"
    /\ dataframes' =
          [k \in 1..Len(dataframes) |->
              LET t == dataframes[k]
              IN  SetCol(t, "year_collected",
                         [i \in 1..NRows(t) |-> YearOf(t["datecollected"][i])])]
    /\ df' = Len(dataframes)
    /\ cell' = "L496"
    /\ UNCHANGED <<loop, summary_stats, summary_stats_dict, report, top_10_taxa>>
    /\ UNCHANGED <<cohorts, callVars, cellVars, normVars, netVars>>

\* for name, df in dataframes.items():
\*     unique_taxa_per_year = df.groupby('year_collected')['taxaname'].nunique().reset_index()
\*     plt.plot(...)
PlotTaxaPerYear ==
    /\ cell = "L496"
    /\ df' = Len(dataframes)
    /\ cell' = "end"
    /\ UNCHANGED <<dataframes, loop, summary_stats, summary_stats_dict, report, top_10_taxa>>
    /\ UNCHANGED <<cohorts, callVars, cellVars, normVars, netVars>>

NextBio ==
    \/ CheckMissing
    \/ SummariseNext
    \/ SelectTopTaxa
    \/ PlotTopTaxa
    \/ AddYearCollected
    \/ PlotTaxaPerYear

SpecBio == InitBio /\ [][NextBio]_vars

(***************************************************************************)
(* The network cell of the MomCare notebook.                               *)
(***************************************************************************)
AssocRowInputs ==
    { [patient_id |-> Str(pid), org_name |-> org] :
        pid \in {"p1", "A", "B"}, org \in {Str("A"), Str("B"), Null} }

\* Rows of nine more clinics, the c-th with c rows, of the patients q1..qc:
\* with them and both A and B the table names more clinics than head(10)
\* keeps.
FillerClinics == <<"F1", "F2", "F3", "F4", "F5", "F6", "F7", "F8", "F9">>
FillerPatients == <<"q1", "q2", "q3", "q4", "q5", "q6", "q7", "q8", "q9">>

RECURSIVE FillerRowsFrom(_, _)
FillerRowsFrom(c, j) ==
    IF c > Len(FillerClinics) THEN <<>>
    ELSE IF j > c THEN FillerRowsFrom(c + 1, 1)
    ELSE <<[patient_id |-> Str(FillerPatients[j]), org_name |-> Str(FillerClinics[c])]>>
             \o FillerRowsFrom(c, j + 1)

FillerRows == FillerRowsFrom(1, 1)

\* cohort_map as the cohort cell and the age cell leave it; the columns the
\* network cell does not read hold one value in every row.
CohortMapOf(rows) ==
    [c \in {"patient_id", "org_name", "cohort", "start_date", "birthDate"} |->
        [i \in 1..Len(rows) |->
            CASE c = "patient_id" -> rows[i].patient_id
              [] c = "org_name" -> rows[i].org_name
              [] c = "cohort" -> Unassigned
              [] c = "start_date" -> NaT
              [] OTHER -> Null]]

InitNet ==
    /\ cohorts = CohortWindows
    /\ IdleCall
    /\ IdleNorm
    /\ IdleBio
    /\ IdleNet
    /\ episode_df = NoTable
    /\ patient_df = NoTable
    /\ \E rows \in SeqsUpTo(AssocRowInputs, MaxAssoc), more \in {<<>>, FillerRows} :
          cohort_map = CohortMapOf(rows \o more)
    /\ pc = "L336"

\* clinic_patient_counts = cohort_map['org_name'].value_counts().reset_index()
CountPatientsPerClinic ==
    /\ pc = "L336"
    /\ \E rows \in {ClinicCounts(cohort_map)} :
          \E o \in SortedOrders([i \in 1..Len(rows) |-> rows[i].patient_count],
                                1..Len(rows)) :
              clinic_patient_counts' = [i \in 1..Len(rows) |-> rows[o[i]]]
    /\ pc' = "L340"
    /\ UNCHANGED <<top_clinics, cohort_map_top_clinics, G, edge_row, node_size>>
    /\ UNCHANGED <<cohorts, callVars, episode_df, patient_df, cohort_map, normVars, bioVars>>

\* top_clinics = clinic_patient_counts.head(10)['org_name'].tolist()
SelectTopClinics ==
    /\ pc = "L340"
    /\ LET top == HeadRows(clinic_patient_counts, TopK)
       IN  top_clinics' = [i \in 1..Len(top) |-> top[i].org_name]
    /\ pc' = "L343"
    /\ UNCHANGED <<clinic_patient_counts, cohort_map_top_clinics, G, edge_row, node_size>>
    /\ UNCHANGED <<cohorts, callVars, episode_df, patient_df, cohort_map, normVars, bioVars>>

\* cohort_map_top_clinics = cohort_map[cohort_map['org_name'].isin(top_clinics)].copy()
RestrictToTopClinics ==
    /\ pc = "L343"
    /\ cohort_map_top_clinics' =
          Filter(cohort_map,
                 {i \in 1..NRows(cohort_map) :
                     /\ cohort_map["org_name"][i].kind = "str"
                     /\ cohort_map["org_name"][i].text \in Range(top_clinics)})
    /\ pc' = "L346"
    /\ UNCHANGED <<clinic_patient_counts, top_clinics, G, edge_row, node_size>>
    /\ UNCHANGED <<cohorts, callVars, episode_df, patient_df, cohort_map, normVars, bioVars>>

\* G = nx.Graph(); G.add_nodes_from(top_clinics, node_type='clinic')
AddClinicNodes ==
    /\ pc = "L346"
    /\ G' = AddNodesFrom(EmptyGraph, Range(top_clinics), "clinic")
    /\ pc' = "L352"
    /\ UNCHANGED <<clinic_patient_counts, top_clinics, cohort_map_top_clinics, edge_row, node_size>>
    /\ UNCHANGED <<cohorts, callVars, episode_df, patient_df, cohort_map, normVars, bioVars>>

\* unique_patients = cohort_map_top_clinics['patient_id'].unique()
\* G.add_nodes_from(unique_patients, node_type='patient')
AddPatientNodes ==
    /\ pc = "L352"
    /\ G' = AddNodesFrom(G, Range(Unique(cohort_map_top_clinics["patient_id"])), "patient")
    /\ edge_row' = 1
    /\ pc' = "L356"
    /\ UNCHANGED <<clinic_patient_counts, top_clinics, cohort_map_top_clinics, node_size>>
    /\ UNCHANGED <<cohorts, callVars, episode_df, patient_df, cohort_map, normVars, bioVars>>

\* One turn of: for index, row in cohort_map_top_clinics.iterrows():
\*     G.add_edge(row['patient_id'], row['org_name'])
AddEdgeOfRow ==
    /\ pc = "L356"
    /\ edge_row <= NRows(cohort_map_top_clinics)
    /\ G' = AddEdge(G, cohort_map_top_clinics["patient_id"][edge_row].text,
                       cohort_map_top_clinics["org_name"][edge_row].text)
    /\ edge_row' = edge_row + 1
    /\ UNCHANGED pc
    /\ UNCHANGED <<clinic_patient_counts, top_clinics, cohort_map_top_clinics, node_size>>
    /\ UNCHANGED <<cohorts, callVars, episode_df, patient_df, cohort_map, normVars, bioVars>>

\* The edge loop ends.
EdgesDone ==
    /\ pc = "L356"
    /\ edge_row > NRows(cohort_map_top_clinics)
    /\ pc' = "L361"
    /\ UNCHANGED netVars
    /\ UNCHANGED <<cohorts, callVars, episode_df, patient_df, cohort_map, normVars, bioVars>>

\* The patient_count of the first row of clinic_patient_counts of the name.
PatientCountOf(name) ==
    LET n == CHOOSE m \in 1..Len(clinic_patient_counts) :
                  /\ clinic_patient_counts[m].org_name = name
                  /\ \A k \in 1..(m - 1) : clinic_patient_counts[k].org_name # name
    IN  clinic_patient_counts[n].patient_count

\* pos = nx.spring_layout(G, seed=42), the edge trace, and then
\* for node in G.nodes(): a clinic's size is patient_count * 0.5, any other
\* node's is 5; a node without a node_type raises KeyError.  node_size is
\* kept by node, not by the node's position in G.nodes().
TraceNodes ==
    /\ pc = "L361"
    /\ IF \E n \in DOMAIN G.nodes : G.nodes[n] = "none"
       THEN /\ pc' = "raised L394"
            /\ UNCHANGED node_size
       ELSE /\ node_size' = [n \in DOMAIN G.nodes |->
                                IF G.nodes[n] = "clinic"
                                THEN <<PatientCountOf(n), 2>>
                                ELSE <<5, 1>>]
            /\ pc' = "L411"
    /\ UNCHANGED <<clinic_patient_counts, top_clinics, cohort_map_top_clinics, G, edge_row>>
    /\ UNCHANGED <<cohorts, callVars, episode_df, patient_df, cohort_map, normVars, bioVars>>

NextNet ==
    \/ TraceNodes
    \/ CountPatientsPerClinic
    \/ SelectTopClinics
    \/ RestrictToTopClinics
    \/ AddClinicNodes
    \/ AddPatientNodes
    \/ AddEdgeOfRow
    \/ EdgesDone

SpecNet == InitNet /\ [][NextNet]_vars

(***************************************************************************)
(* Claims about assign_cohort and the cohort windows.                      *)
(***************************************************************************)
\* The intervals of the list whose inclusive range contains d.
Containing(cs, d) ==
    {i \in 1..Len(cs) : ToDatetime(cs[i][2]) <= d /\ d <= ToDatetime(cs[i][3])}

Least(S) == CHOOSE i \in S : \A j \in S : i <= j

\* C1: a call of assign_cohort with a non-null date returns the label of the
\* first interval, in declaration order, whose inclusive range contains the
\* date, and "Unassigned" when no interval contains it.
C1_FirstContainingInterval ==
    (calls > 0 /\ ~IsNull(date)) =>
        LET M == Containing(cohorts, date)
        IN  IF M = {} THEN label = Unassigned
            ELSE label = cohorts[Least(M)][1]

\* A call with the last instant of Cohort 2's range returned "Cohort 2".
C1_Witness ==
    /\ calls > 0
    /\ date = ToDatetime(<<2021, 6, 30>>)
    /\ label = "Cohort 2"

\* C3: no date lies in the inclusive range of two different cohort windows.
C3_WindowsDisjoint ==
    ~IsNull(date) => Cardinality(Containing(cohorts, date)) <= 1

\* The day after Cohort 4's last day lies in Cohort 5's range alone and was
\* labelled so.
C3_Witness ==
    /\ calls > 0
    /\ date = ToDatetime(<<2022, 3, 1>>)
    /\ Containing(cohorts, date) = {5}
    /\ Containing(cohorts, date - 1) = {}
    /\ Containing(cohorts, date - TicksPerDay) = {4}
    /\ label = "Cohort 5"

\* A period_start cell, as decoded, that holds no date: missing, or a text
\* that is no calendar date.
HoldsNoDate(x) == x.kind # "str" \/ ~IsValidDateText(x.text.body)

HasCol(tbl, c) == c \in DOMAIN tbl

C4_AssignCohortPure ==
    /\ [](\A p, q \in returned : p[1] = q[1] => p[2] = q[2])
    /\ [][calls' # calls =>
            /\ cohorts' = cohorts
            /\ episode_df' = episode_df
            /\ patient_df' = patient_df
            /\ cohort_map' = cohort_map]_vars

\* assign_cohort was called twice with one date of Cohort 1 and, in
\* between or after, with another date.
C4_Witness ==
    /\ calls > Cardinality(returned)
    /\ Cardinality(returned) >= 2
    /\ \E p \in returned : p[2] = "Cohort 1"
    /\ NRows(cohort_map) > 0

(***************************************************************************)
(* Claims about the Column Normalizer.                                     *)
(***************************************************************************)
\* C5: column-name normalization is idempotent: a run of the rename cell on
\* names that were already normalized leaves every name as it is.
C5_NormalizeIdempotent ==
    [][(renames >= 1 /\ renames' = renames + 1) => columns' = columns]_vars

\* The rename cell ran twice on a name that began with the prefix and had
\* further segments.
C5_Witness ==
    /\ renames = 2
    /\ raw_columns[1] = prefix \o <<"a", "/", "b">> \o <<"i", "d">>
    /\ columns[1] = <<"b", "i", "d">>

Occurs(x, old) ==
    \E k \in 0..(Len(x) - Len(old)) : SubSeq(x, k + 1, k + Len(old)) = old

HasSlash(x) == \E k \in 1..Len(x) : x[k] = "/"

\* r is what follows the last "/" of y (all of y when it has none).
IsLastSegment(r, y) ==
    /\ Len(r) <= Len(y)
    /\ SubSeq(y, Len(y) - Len(r) + 1, Len(y)) = r
    /\ ~HasSlash(r)
    /\ Len(r) < Len(y) => y[Len(y) - Len(r)] = "/"

\* C6: the normalized name is the last "/"-delimited segment of the raw name
\* with the prefix removed; of the raw name itself when the prefix does not
\* occur in it; and the raw name itself when it contains no "/".
C6_NormalizedName ==
    renames >= 1 =>
        \A i \in 1..Len(columns) :
            LET x == raw_columns[i]
                r == columns[i]
                rest == SubSeq(x, Len(prefix) + 1, Len(x))
            IN  /\ IsLastSegment(r, StrReplace(x, prefix))
                /\ ~Occurs(x, prefix) => IsLastSegment(r, x)
                /\ (StartsWith(x, prefix) /\ ~Occurs(rest, prefix))
                       => IsLastSegment(r, rest)
                /\ ~HasSlash(x) => r = x

\* The rename cell ran on a name without the prefix and with a "/", on one
\* that begins with the prefix, and on an already normalized one.
C6_Witness ==
    /\ renames = 1
    /\ Len(columns) = 2
    /\ raw_columns[1] = prefix \o <<"i", "d">>
    /\ raw_columns[2] = <<"a", "/", "b">> \o <<"i", "d">>
    /\ columns = << <<"i", "d">>, <<"b", "i", "d">> >>

(***************************************************************************)
(* Claims about the Aggregator.                                            *)
(***************************************************************************)
\* The tables the summary loop has been through.
Summarised == 1..(loop - 1)

RowsOf(t, g) == {i \in 1..NRows(t) : t["taxaname"][i] = Str(g)}

HasValue(t, i) == t["parameter_value"][i] # NumNull

RECURSIVE SumCounts(_)
SumCounts(rows) == IF rows = <<>> THEN 0 ELSE Head(rows).Count + SumCounts(Tail(rows))

\* C7 as stated: the Count of group g's row is the number of rows of the
\* table whose taxaname is g.
C7_CountIsGroupSize ==
    \A k \in Summarised :
        \A n \in 1..Len(summary_stats_dict[k]) :
            LET r == summary_stats_dict[k][n]
            IN  r.Count = Cardinality(RowsOf(dataframes[k], r.Taxa))

\* C7, amended: the Count of group g's row is the number of rows of the
\* table whose taxaname is g and whose parameter_value is not missing.
C7_CountIsValuedGroupSize ==
    \A k \in Summarised :
        \A n \in 1..Len(summary_stats_dict[k]) :
            LET r == summary_stats_dict[k][n]
                t == dataframes[k]
            IN  r.Count = Cardinality({i \in RowsOf(t, r.Taxa) : HasValue(t, i)})

\* The FISH table has two rows of taxon A, one without a value, and A's
\* Count is 1.
C7_Witness ==
    /\ loop > 4
    /\ Cardinality(RowsOf(dataframes[4], "A")) = 2
    /\ \E i \in RowsOf(dataframes[4], "A") : ~HasValue(dataframes[4], i)
    /\ \E n \in 1..Len(summary_stats) :
          summary_stats[n].Taxa = "A" /\ summary_stats[n].Count = 1

\* C8 as stated: the Counts of a table's summary add up to the number of its
\* rows with a parameter_value, the rows without a taxaname included.
C8_CountsSumToValued ==
    \A k \in Summarised :
        SumCounts(summary_stats_dict[k])
            = Cardinality({i \in 1..NRows(dataframes[k]) : HasValue(dataframes[k], i)})

\* C8, amended: the Counts add up to the number of rows that have both a
\* parameter_value and a taxaname.
C8_CountsSumToValuedAndGrouped ==
    \A k \in Summarised :
        LET t == dataframes[k]
        IN  SumCounts(summary_stats_dict[k])
              = Cardinality({i \in 1..NRows(t) :
                               HasValue(t, i) /\ t["taxaname"][i].kind = "str"})

\* A table with a valued row without taxaname, a valued row of A and a row
\* of B without value has been summarised: the Counts add up to 1.
C8_Witness ==
    /\ loop > 1
    /\ dataframes[1] = FromRows(<<BioRow(Null, Num(3)),
                                  BioRow(Str("A"), Num(1)),
                                  BioRow(Str("B"), NumNull)>>,
                                BioColumns)
    /\ SumCounts(summary_stats_dict[1]) = 1

\* The position of a taxon among the sorted group keys.
KeyRank(g) == CHOOSE n \in 1..Len(TaxaNames) : TaxaNames[n] = g

OneRowPerGroup(rows, t) ==
    /\ \A n, m \in 1..Len(rows) : rows[n].Taxa = rows[m].Taxa => n = m
    /\ {rows[n].Taxa : n \in 1..Len(rows)}
         = {t["taxaname"][i].text :
              i \in {j \in 1..NRows(t) : t["taxaname"][j].kind = "str"}}

\* C9 as stated: one row per distinct group value, by Count descending, the
\* rows of equal Count in the order of the groupby's partitions.
C9_SortedStable ==
    \A k \in Summarised :
        LET rows == summary_stats_dict[k]
        IN  /\ OneRowPerGroup(rows, dataframes[k])
            /\ \A n \in 1..(Len(rows) - 1) :
                  \/ rows[n].Count > rows[n + 1].Count
                  \/ /\ rows[n].Count = rows[n + 1].Count
                     /\ KeyRank(rows[n].Taxa) < KeyRank(rows[n + 1].Taxa)

\* C9, amended: one row per distinct non-missing group value, by Count
\* descending; the order of the rows of equal Count is not determined.
C9_SortedDescending ==
    \A k \in Summarised :
        LET rows == summary_stats_dict[k]
        IN  /\ OneRowPerGroup(rows, dataframes[k])
            /\ \A n \in 1..(Len(rows) - 1) : rows[n].Count >= rows[n + 1].Count

\* Taxon A with one value and taxon B with two come out as [B, A].
C9_Witness ==
    /\ loop > 2
    /\ Len(summary_stats_dict[2]) = 2
    /\ summary_stats_dict[2][1].Taxa = "B" /\ summary_stats_dict[2][1].Count = 2
    /\ summary_stats_dict[2][2].Taxa = "A" /\ summary_stats_dict[2][2].Count = 1

(***************************************************************************)
(* Claims about the Network Builder.                                       *)
(***************************************************************************)
\* The position at which a clinic name is first seen in cohort_map.
SeenAt(name) ==
    LET names == Unique(cohort_map["org_name"])
    IN  CHOOSE n \in 1..Len(names) : names[n] = name

\* C10 as stated: the count a clinic is ranked by is the number of distinct
\* patient identifiers of its rows, and the clinics selected are the (at
\* most) K of the highest such count, equal counts in first-seen order.
C10_RankedByDistinctPatients ==
    /\ pc \notin {"L336"} =>
          \A n \in 1..Len(clinic_patient_counts) :
              clinic_patient_counts[n].patient_count
                  = DistinctPatients(cohort_map, clinic_patient_counts[n].org_name)
    /\ pc \notin {"L336", "L340"} =>
          LET names == Unique(cohort_map["org_name"])
              dp(c) == DistinctPatients(cohort_map, c)
          IN  /\ Len(top_clinics) = (IF Len(names) < TopK THEN Len(names) ELSE TopK)
              /\ Range(top_clinics) \subseteq Range(names)
              /\ \A a, b \in 1..Len(top_clinics) :
                    a < b =>
                       \/ dp(top_clinics[a]) > dp(top_clinics[b])
                       \/ /\ dp(top_clinics[a]) = dp(top_clinics[b])
                          /\ SeenAt(top_clinics[a]) < SeenAt(top_clinics[b])
              /\ \A c \in Range(names) \ Range(top_clinics) :
                    \A a \in 1..Len(top_clinics) : dp(c) <= dp(top_clinics[a])

\* The (patient, clinic) pairs of the first n restricted rows.
PairsOf(n) ==
    { <<cohort_map_top_clinics["patient_id"][i].text,
        cohort_map_top_clinics["org_name"][i].text>> : i \in 1..n }

\* C11 as stated: the graph holds one edge per distinct (patient, clinic)
\* pair of the restricted rows the edge loop has been through, so that the
\* number of edges is the number of distinct pairs.
C11_OneEdgePerDistinctPair ==
    pc \in {"L356", "L361", "L411"} =>
        Cardinality(G.edges) = Cardinality(PairsOf(edge_row - 1))

\* The nodes of G of a node_type.
NodesOfType(type) == {n \in DOMAIN G.nodes : G.nodes[n] = type}

Min(a, b) == IF a < b THEN a ELSE b

\* C12 as stated: the built graph has one node of type "clinic" per
\* selected clinic, min(K, number of distinct clinics) of them, and one node
\* of type "patient" per distinct patient identifier of the restricted rows.
C12_OneNodePerClinicAndPatient ==
    pc \in {"L356", "L361", "L411"} =>
        /\ NodesOfType("clinic") = Range(top_clinics)
        /\ Cardinality(NodesOfType("clinic"))
             = Min(TopK, Len(Unique(cohort_map["org_name"])))
        /\ NodesOfType("patient") = Range(Unique(cohort_map_top_clinics["patient_id"]))

\* C13 as stated: in every state of the construction every edge of G joins
\* a node of type "patient" and a node of type "clinic"; no edge is a
\* self-loop or joins two nodes of one type.
C13_Bipartite ==
    \A ed \in G.edges :
        /\ Cardinality(ed) = 2
        /\ {G.nodes[n] : n \in ed} = {"patient", "clinic"}

\* The nodes an edge of G joins the node n with.
Neighbours(n) == {m \in DOMAIN G.nodes : {n, m} \in G.edges}

\* C14 as stated: the size of a clinic node is half the clinic's patient
\* count, and that count is the number of distinct patients the graph
\* connects the clinic with.
C14_ClinicSizedByDistinctPatients ==
    pc = "L411" =>
        \A n \in NodesOfType("clinic") :
            /\ node_size[n] = <<PatientCountOf(n), 2>>
            /\ PatientCountOf(n) = Cardinality(Neighbours(n))

(***************************************************************************)
(* Claims about the cells of the biodiversity notebook.                    *)
(***************************************************************************)
\* The cells that plot.
PlotCells == {"L426", "L496"}

\* C15 as stated: plotting is not fed back; a cell that plots leaves every
\* table, the parameter_value column of every extracted table in
\* particular, as it found it for the cells that run after it.
C15_PlottingNotFedBack ==
    [][(cell \in PlotCells) => (dataframes' = dataframes)]_vars

(***************************************************************************)
(* Claims about the decoding of the MomCare tables.                        *)
(***************************************************************************)
\* C16 as stated: a byte value that cannot be decoded never aborts the cell
\* that prepares the merge; every statement that decodes a field runs to its
\* end whatever bytes the field holds.
C16_UndecodableNeverAborts ==
    pc \notin {"raised L235", "raised L237", "raised L242"}

\* The columns of a table with at least one missing value, and the number
\* of missing values of a column.
WithMissing(t) ==
    {c \in DOMAIN t : \E i \in 1..NRows(t) : IsMissingCell(c, t[c][i])}

MissingCount(t, c) == Cardinality({i \in 1..NRows(t) : IsMissingCell(c, t[c][i])})

\* The cells between the missing-value check and the first cell that writes
\* to a table: the tables are still the ones the check saw.
AsChecked == cell \in {"L347", "L415", "L426"}

ReportText(k) ==
    report[k].text = (IF WithMissing(dataframes[k]) = {}
                      THEN "has no missing values"
                      ELSE "has missing values in columns")

\* C17 as stated: for every table the check reports exactly the columns
\* with a missing value, each by name and with the number of its missing
\* values, reports "no missing values" only when there is none, and leaves
\* the tables as they are.
C17_ReportsNamesAndCounts ==
    /\ [](AsChecked =>
            \A k \in 1..Len(dataframes) :
                /\ ReportText(k)
                /\ Range(report[k].columns)
                     = {<<c, MissingCount(dataframes[k], c)>> : c \in WithMissing(dataframes[k])})
    /\ [][(cell = "L317") => (dataframes' = dataframes)]_vars

\* C17, amended: for every table the check reports exactly the columns with
\* a missing value, each once and by name only (no number of missing values
\* is reported), reports "no missing values" only when there is none, and
\* leaves the tables as they are.
C17_ReportsNames ==
    /\ [](AsChecked =>
            \A k \in 1..Len(dataframes) :
                /\ ReportText(k)
                /\ Len(report[k].columns) = Cardinality(WithMissing(dataframes[k]))
                /\ Range(report[k].columns) = {<<c>> : c \in WithMissing(dataframes[k])})
    /\ [][(cell = "L317") => (dataframes' = dataframes)]_vars

\* The check has run on a table with a row without taxaname and a row without
\* parameter_value (two missing values in that column) and on a table
\* without a missing value.
C17_Witness ==
    /\ cell = "L347"
    /\ \E k \in 1..Len(dataframes) :
          /\ MissingCount(dataframes[k], "parameter_value") = 2
          /\ MissingCount(dataframes[k], "taxaname") = 1
          /\ NRows(dataframes[k]) = 3
          /\ report[k] = [text |-> "has missing values in columns",
                          columns |-> << <<"taxaname">>, <<"parameter_value">> >>]
    /\ \E k \in 1..Len(dataframes) :
          report[k] = [text |-> "has no missing values", columns |-> <<>>]

\* The position of the FISH record set.
Fish == CHOOSE k \in 1..Len(record_set_ids) : record_set_ids[k] = "FISH"

\* C18: once the cell after the summary loop has run, top_10_taxa is the
\* first (at most) 10 rows of the summary of the FISH table, the table the
\* loop summarised last: rows of the highest Count, by Count descending.
C18_TopTaxaAreFish ==
    cell \in {"L426", "L482", "L496", "end"} =>
        LET fish == summary_stats_dict[Fish]
        IN  /\ summary_stats = fish
            /\ Len(top_10_taxa) = Min(TopTaxa, Len(fish))
            /\ top_10_taxa = SubSeq(fish, 1, Len(top_10_taxa))
            /\ \A n \in 1..(Len(top_10_taxa) - 1) :
                  top_10_taxa[n].Count >= top_10_taxa[n + 1].Count
            /\ \A m \in (Len(top_10_taxa) + 1)..Len(fish) :
                  \A n \in 1..Len(top_10_taxa) : fish[m].Count <= top_10_taxa[n].Count
            /\ cell = "L426" => Range(fish) = Range(Aggregate(dataframes[Fish]))

\* The FISH table has eleven taxa and A, with two values, is among the ten
\* of top_10_taxa, while a taxon with one value is cut off; the table the
\* loop summarised before FISH has a summary of one row.
C18_Witness ==
    /\ cell = "L426"
    /\ Len(summary_stats_dict[Fish]) = 11
    /\ Len(top_10_taxa) = 10
    /\ \E n \in 1..10 : top_10_taxa[n].Taxa = "A" /\ top_10_taxa[n].Count = 2
    /\ summary_stats_dict[Fish][11].Count = 1
    /\ Len(summary_stats_dict[Fish - 1]) = 1

(***************************************************************************)
(* Claims about the cohort windows at the granularity of a day.            *)
(***************************************************************************)
\* Whether a timestamp is the midnight of its day, and that midnight.
IsMidnight(d) == d % TicksPerDay = 0

MidnightOf(d) == d - (d % TicksPerDay)

CohortLabels == {CohortWindows[i][1] : i \in 1..Len(CohortWindows)}

\* C19: a call with the midnight of a day from 2020-11-01 through 2023-10-31
\* returns the label of the one window that contains it, one of Cohort 1 ..
\* Cohort 9; a call with a date before 2020-11-01 or after 2023-10-31
\* returns "Unassigned".
C19_NoGapBetweenWindows ==
    (calls > 0 /\ ~IsNull(date)) =>
        /\ (/\ IsMidnight(date)
            /\ ToDatetime(<<2020, 11, 1>>) <= date
            /\ date <= ToDatetime(<<2023, 10, 31>>))
              => /\ Cardinality(Containing(cohorts, date)) = 1
                 /\ \A i \in Containing(cohorts, date) : label = cohorts[i][1]
                 /\ label \in CohortLabels
        /\ (date < ToDatetime(<<2020, 11, 1>>) \/ date > ToDatetime(<<2023, 10, 31>>))
              => label = Unassigned

\* A call with the midnight of 2021-03-01, the day after Cohort 1's last
\* day, returned "Cohort 2".
C19_Witness ==
    /\ calls > 0
    /\ date = ToDatetime(<<2021, 3, 1>>)
    /\ IsMidnight(date)
    /\ Containing(cohorts, date - TicksPerDay) = {1}
    /\ label = "Cohort 2"

\* C20: a call with a date on a window's last day that carries a time of
\* day other than 00:00 returns "Unassigned", while the midnight of that day
\* is labelled with the window's cohort.
C20_LastDayAfterMidnightUnassigned ==
    (calls > 0 /\ ~IsNull(date) /\ ~IsMidnight(date)) =>
        \A i \in 1..Len(cohorts) :
            MidnightOf(date) = ToDatetime(cohorts[i][3]) =>
                /\ label = Unassigned
                /\ Containing(cohorts, date) = {}
                /\ assign_cohort(cohorts, MidnightOf(date)) = cohorts[i][1]

\* A call with 2021-02-28 one tick after midnight returned "Unassigned".
C20_Witness ==
    /\ calls > 0
    /\ date = ToDatetime(<<2021, 2, 28, 1>>)
    /\ label = Unassigned
    /\ assign_cohort(cohorts, ToDatetime(<<2021, 2, 28>>)) = "Cohort 1"

(***************************************************************************)
(* Claims about the merge of the episodes with the patients.               *)
(***************************************************************************)
\* The episodes without a patient reference, the patient records without an
\* identifier, and the rows of cohort_map with the key k.
NoReference == {i \in 1..NRows(episode_df) : episode_df["patient_reference"][i].kind = "null"}

NoIdentifier == {j \in 1..NRows(patient_df) : patient_df["identifier_value"][j].kind = "null"}

RowsWithKey(k) == {n \in 1..NRows(cohort_map) : cohort_map["patient_id"][n] = k}

\* C21: a missing patient reference and a missing patient identifier are
\* both the text key "nan" at the merge, and an episode without a patient
\* reference is joined to every patient record without an identifier: for
\* each of them cohort_map has a row of the episode with that record's
\* birthDate and org_name.
C21_MissingKeysJoin ==
    pc = "done" =>
        /\ \A i \in NoReference : episode_df["patient_id"][i] = Str("nan")
        /\ \A j \in NoIdentifier : patient_df["patient_id"][j] = Str("nan")
        /\ \A i \in NoReference, j \in NoIdentifier :
              \E n \in RowsWithKey(Str("nan")) :
                  /\ cohort_map["start_date"][n] = episode_df["start_date"][i]
                  /\ cohort_map["cohort"][n] = episode_df["cohort"][i]
                  /\ cohort_map["birthDate"][n] = patient_df["birthDate"][j]
                  /\ cohort_map["org_name"][n] = patient_df["org_name"][j]
        /\ NoIdentifier # {} =>
              Cardinality(RowsWithKey(Str("nan")))
                  = Cardinality(NoReference) * Cardinality(NoIdentifier)

\* An episode without a patient reference has been merged with two patient
\* records without an identifier: cohort_map has two rows of the key "nan",
\* one of them with the org_name B.
C21_Witness ==
    /\ pc = "done"
    /\ Cardinality(NoReference) = 1
    /\ Cardinality(NoIdentifier) = 2
    /\ Cardinality(RowsWithKey(Str("nan"))) = 2
    /\ \E n, m \in RowsWithKey(Str("nan")) :
          /\ cohort_map["org_name"][n] = Str("B")
          /\ cohort_map["org_name"][m] # Str("B")

(***************************************************************************)
(* Claims about what the built graph holds.                                *)
(***************************************************************************)
\* The rows of cohort_map whose clinic is one of the selected clinics.
SelectedRows ==
    {i \in 1..NRows(cohort_map) :
        /\ cohort_map["org_name"][i].kind = "str"
        /\ cohort_map["org_name"][i].text \in Range(top_clinics)}

Isolated(n) == \A ed \in G.edges : n \notin ed

\* C22: in the built graph every node of type "patient" has an edge, every
\* edge has a selected clinic as an end point, the nodes and the edges are
\* those of the selected clinics and of the rows that name one of them (a
\* row whose clinic is missing or not selected adds none), and a node
\* without an edge is a selected clinic.
C22_OnlySelectedRowsContribute ==
    pc \in {"L361", "L411"} =>
        /\ \A n \in NodesOfType("patient") : ~Isolated(n)
        /\ \A ed \in G.edges : ed \cap Range(top_clinics) # {}
        /\ DOMAIN G.nodes
             = Range(top_clinics)
                 \cup {cohort_map["patient_id"][i].text : i \in SelectedRows}
        /\ G.edges = { {cohort_map["patient_id"][i].text, cohort_map["org_name"][i].text} :
                         i \in SelectedRows }
        /\ \A n \in DOMAIN G.nodes :
              Isolated(n) => (n \in Range(top_clinics) /\ G.nodes[n] = "clinic")

\* The graph is built from a table of eleven clinics in which the patient B
\* has a row of clinic B and a row without a clinic; clinic B is not among
\* the ten selected, and the graph has no node B and ten clinic nodes.
C22_Witness ==
    /\ pc = "L411"
    /\ Len(Unique(cohort_map["org_name"])) = 11
    /\ Len(top_clinics) = TopK
    /\ "B" \notin Range(top_clinics)
    /\ \E i, j \in 1..NRows(cohort_map) :
          /\ cohort_map["patient_id"][i] = Str("B") /\ cohort_map["org_name"][i] = Str("B")
          /\ cohort_map["patient_id"][j] = Str("B") /\ cohort_map["org_name"][j] = Null
    /\ "B" \notin DOMAIN G.nodes
    /\ Cardinality(NodesOfType("clinic")) = TopK

=============================================================================
